---- MODULE Spec2Model ----
(***************************************************************************)
(* Grid-to-graph construction and analysis of TradeRouteSimulator:         *)
(* create_elevation_graph, analyze_graph and save_graph_sample of          *)
(* create_graph.py, over elevation arrays as load_dem_data.py and          *)
(* preprocess_dem.py describe them (SRTM rasters, no-data value -32768).   *)
(***************************************************************************)
EXTENDS Integers, Sequences, FiniteSets, TLC

\* ---------------------------------------------------------------- bounds
\* Largest number of cells of an input array (rows * cols <= MaxCells).
MaxCells == 6
\* Largest component of a size cap max_size = (max_rows, max_cols).
MaxCap == 2
\* Largest sample_size handed to save_graph_sample.
MaxSample == 3

\* ------------------------------------------------------- program constants
\* SRTM no-data value (load_dem_data.py line 18, preprocess_dem.py line 36).
NoData == -32768

\* Elevation samples an array may hold: the no-data value and two ordinary ones.
Elevs == {NoData, 0, 100}

\* Sample values of the capped runs.
CapElevs == {0, 100}

\* Array element types: SRTM rasters are 16 bit signed integers, a
\* preprocessed raster holds floats (exact on the integers used here).
DTypes == {"int16", "float64"}

\* max_size=None, the default of create_elevation_graph: a falsy value.
None == <<>>

\* The size caps of the capped runs: (max_rows, max_cols).
Caps == (0..MaxCap) \X (0..MaxCap)

\* min(a, b)
Min(a, b) == IF a <= b THEN a ELSE b

\* Shapes of the input arrays: rows x cols, zero-sized ones included.
Shapes == {s \in (0..MaxCells) \X (0..MaxCells) : s[1] * s[2] <= MaxCells}

\* The index set of an array of r rows and c columns.
Cells(r, c) == (0..(r - 1)) \X (0..(c - 1))

\* All arrays over the values vs: shape, dtype and data.
Arrays(vs) ==
  UNION {[shape : {s}, dtype : DTypes, data : [Cells(s[1], s[2]) -> vs]] : s \in Shapes}

\* ------------------------------------------------------------------ state
VARIABLES
  elevation,       \* the caller's array (np.load result), never modified
  max_size,        \* the max_size argument
  pc,              \* position of the program
  rows, cols,      \* locals of create_elevation_graph
  elevation_array, \* local of create_elevation_graph, rebound by the slice
  G,               \* the networkx graph: node_list (insertion order), nodes, edges
  i, j, d,         \* loop indices: row, column, direction (1..4)
  edge_count,      \* local counter of create_elevation_graph
  err, err_at,     \* exception raised, and the statement raising it
  is_connected,    \* value printed by analyze_graph line 93
  components_listed, \* analyze_graph took the branch of lines 95-97
  sample_size,     \* argument of save_graph_sample
  subgraph         \* the subgraph handed to write_graphml

vars == <<elevation, max_size, pc, rows, cols, elevation_array, G, i, j, d,
          edge_count, err, err_at, is_connected, components_listed,
          sample_size, subgraph>>

\* ---------------------------------------------------------------- helpers
\* nx.Graph(): no nodes, no edges.
EmptyGraph == [node_list |-> <<>>, nodes |-> <<>>, edges |-> <<>>]

\* `if max_size:` None and the empty tuple are falsy.
Truthy(ms) == Len(ms) > 0

\* rows = min(rows, max_size[0])
CappedRows(r, ms) == Min(r, ms[1])

\* A cap applied with the components swapped.
CappedColsSwapped(c, ms) == Min(c, ms[1])

\* cols = min(cols, max_size[1])
CappedCols(c, ms) == Min(c, ms[2])

\* elevation_array[:rows, :cols] for rows, cols >= 0
Slice(a, r, c) ==
  LET sr == Min(r, a.shape[1])
      sc == Min(c, a.shape[2])
  IN [shape |-> <<sr, sc>>, dtype |-> a.dtype,
      data |-> [p \in Cells(sr, sc) |-> a.data[p]]]

\* Node id with the coordinates swapped.
NodeIdSwapped(r, c, ncols) == c * ncols + r

\* node_id = i * cols + j
NodeId(r, c, ncols) == r * ncols + c

\* Directions with a diagonal step in place of "right".
directions_diag == <<<<-1, 0>>, <<1, 0>>, <<0, -1>>, <<1, 1>>>>

\* Directions that never leave the row.
directions_horizontal == <<<<0, -1>>, <<0, 1>>, <<0, -1>>, <<0, 1>>>>

\* Directions: up, down, left, right
directions == <<<<-1, 0>>, <<1, 0>>, <<0, -1>>, <<0, 1>>>>

\* elevation_array[r, c]: numpy counts a negative index from the end.
At(a, r, c) ==
  a.data[<<IF r < 0 THEN r + a.shape[1] ELSE r, IF c < 0 THEN c + a.shape[2] ELSE c>>]

\* A bounds check that forgets the lower bound of the column.
InBoundsNoLeftCheck(ni, nj, r, c) == 0 <= ni /\ ni < r /\ nj < c

\* if 0 <= ni < rows and 0 <= nj < cols
InBounds(ni, nj, r, c) == 0 <= ni /\ ni < r /\ 0 <= nj /\ nj < c

\* A 16 bit signed integer keeps the low 16 bits of a result.
Wrap16(x) == ((x + 2^15) % 2^16) - 2^15

\* Mathematical absolute value.
AbsInt(x) == IF x < 0 THEN -x ELSE x

\* elevation_diff = abs(current_elevation - neighbor_elevation), computed in
\* the element type of the array: numpy int16 scalars wrap around.
ElevationDiff(a, b, dtype) ==
  IF dtype = "int16" THEN Wrap16(AbsInt(Wrap16(a - b))) ELSE AbsInt(a - b)

\* An edge check that never finds the edge.
HasEdgeNever(g, u, v) == FALSE

\* G.has_edge(u, v): edges are unordered pairs.
HasEdge(g, u, v) == {u, v} \in DOMAIN g.edges

\* G.add_node(n, **attrs): a new node is appended to the node order, a
\* node already there has its attributes set.
AddNode(g, n, attrs) ==
  [g EXCEPT !.node_list = IF n \in DOMAIN g.nodes THEN @ ELSE Append(@, n),
            !.nodes = (n :> attrs) @@ @]

\* G.add_edge(u, v, **attrs): endpoints become nodes if they are not, an
\* existing edge has its attributes updated.
AddEdge(g, u, v, attrs) ==
  LET new == SelectSeq(<<u, v>>, LAMBDA n : n \notin DOMAIN g.nodes)
      new1 == IF Len(new) = 2 /\ u = v THEN <<u>> ELSE new
  IN [node_list |-> g.node_list \o new1,
      nodes |-> [n \in {new1[k] : k \in 1..Len(new1)} |-> <<>>] @@ g.nodes,
      edges |-> ({u, v} :> attrs) @@ g.edges]

\* G.number_of_nodes(), G.number_of_edges()
NumberOfNodes(g) == Len(g.node_list)
NumberOfEdges(g) == Cardinality(DOMAIN g.edges)

\* ------------------------------------------------------------------- Init
InitWith(arrays, caps) ==
  /\ elevation \in arrays
  /\ max_size \in caps
  /\ pc = "start"
  /\ rows = 0 /\ cols = 0
  /\ elevation_array = elevation
  /\ G = EmptyGraph
  /\ i = 0 /\ j = 0 /\ d = 1
  /\ edge_count = 0
  /\ err = "" /\ err_at = ""
  /\ is_connected = FALSE
  /\ components_listed = FALSE
  /\ sample_size = 0
  /\ subgraph = EmptyGraph

Init == InitWith(Arrays(Elevs), {None})

InitCap == InitWith(Arrays(CapElevs), Caps \cup {None})

\* ------------------------------------------------- create_elevation_graph
\* Lines 18-33: shape, optional cap and slice, G = nx.Graph().
Start ==
  /\ pc = "start"
  /\ LET r0 == elevation.shape[1]
         c0 == elevation.shape[2]
         r == IF Truthy(max_size) THEN CappedRows(r0, max_size) ELSE r0
         c == IF Truthy(max_size) THEN CappedCols(c0, max_size) ELSE c0
     IN /\ rows' = r
        /\ cols' = c
        /\ elevation_array' =
             IF Truthy(max_size) THEN Slice(elevation, r, c) ELSE elevation
  /\ G' = EmptyGraph
  /\ i' = 0 /\ j' = 0
  /\ pc' = "nodes"
  /\ UNCHANGED <<elevation, max_size, d, edge_count, err, err_at, is_connected,
                 components_listed, sample_size, subgraph>>

\* The nested loops `for i in range(rows): for j in range(cols)` are over.
LoopDone == i >= rows \/ cols <= 0

\* Lines 37-45: one iteration of the node loop.
AddNodeStep ==
  /\ pc = "nodes"
  /\ ~LoopDone
  /\ LET node_id == NodeId(i, j, cols)
         elev == At(elevation_array, i, j)
     IN G' = AddNode(G, node_id,
                     [row |-> i, col |-> j, elevation |-> elev, pos |-> <<j, -i>>])
  /\ IF j + 1 < cols THEN j' = j + 1 /\ i' = i ELSE j' = 0 /\ i' = i + 1
  /\ UNCHANGED <<elevation, max_size, pc, rows, cols, elevation_array, d,
                 edge_count, err, err_at, is_connected, components_listed,
                 sample_size, subgraph>>

\* Lines 47-52: edge_count = 0, the directions, entry of the edge loop.
BeginEdges ==
  /\ pc = "nodes"
  /\ LoopDone
  /\ edge_count' = 0
  /\ i' = 0 /\ j' = 0 /\ d' = 1
  /\ pc' = "edges"
  /\ UNCHANGED <<elevation, max_size, rows, cols, elevation_array, G, err,
                 err_at, is_connected, components_listed, sample_size, subgraph>>

\* Lines 54-76: one direction of one cell of the edge scan.
EdgeStep ==
  /\ pc = "edges"
  /\ ~LoopDone
  /\ LET current_node == NodeId(i, j, cols)
         current_elevation == At(elevation_array, i, j)
         ni == i + directions[d][1]
         nj == j + directions[d][2]
         neighbor_node == NodeId(ni, nj, cols)
         neighbor_elevation == At(elevation_array, ni, nj)
     IN IF InBounds(ni, nj, rows, cols) /\ ~HasEdge(G, current_node, neighbor_node)
        THEN /\ G' = AddEdge(G, current_node, neighbor_node,
                       [weight |-> ElevationDiff(current_elevation,
                                                 neighbor_elevation,
                                                 elevation_array.dtype),
                        distance |-> 1])
             /\ edge_count' = edge_count + 1
        ELSE UNCHANGED <<G, edge_count>>
  /\ IF d < Len(directions)
     THEN d' = d + 1 /\ j' = j /\ i' = i
     ELSE /\ d' = 1
          /\ IF j + 1 < cols THEN j' = j + 1 /\ i' = i ELSE j' = 0 /\ i' = i + 1
  /\ UNCHANGED <<elevation, max_size, pc, rows, cols, elevation_array, err,
                 err_at, is_connected, components_listed, sample_size, subgraph>>

\* Lines 78-79: return G.
Return ==
  /\ pc = "edges"
  /\ LoopDone
  /\ pc' = "built"
  /\ UNCHANGED <<elevation, max_size, rows, cols, elevation_array, G, i, j, d,
                 edge_count, err, err_at, is_connected, components_listed,
                 sample_size, subgraph>>

\* ---------------------------------------------------------- analyze_graph
\* An average degree that is guarded against a graph without nodes.
AverageDegreeGuarded(g) == FALSE

\* Line 86: sum(degrees) / G.number_of_nodes() divides by zero on a graph
\* without nodes.
AverageDegreeFails(g) == NumberOfNodes(g) = 0

\* The neighbours of node n.
Adj(g, n) == {m \in DOMAIN g.nodes : {n, m} \in DOMAIN g.edges}

RECURSIVE ReachFrom(_, _)
\* The nodes reachable from the set S through edges.
ReachFrom(g, S) ==
  LET T == S \cup UNION {Adj(g, n) : n \in S}
  IN IF T = S THEN S ELSE ReachFrom(g, T)

\* nx.is_connected(G) of a graph with at least one node: every node is
\* reachable from an arbitrary one.
IsConnected(g) == ReachFrom(g, {g.node_list[1]}) = DOMAIN g.nodes

\* Lines 83-86: node and edge counts, average degree.
AnalyzeDegree ==
  /\ pc = "built"
  /\ IF AverageDegreeFails(G)
     THEN pc' = "raised" /\ err' = "ZeroDivisionError" /\ err_at' = "average_degree"
     ELSE pc' = "an_elevation" /\ UNCHANGED <<err, err_at>>
  /\ UNCHANGED <<elevation, max_size, rows, cols, elevation_array, G, i, j, d,
                 edge_count, is_connected, components_listed, sample_size,
                 subgraph>>

\* Lines 88-90: min and max of the node elevations; min() of an empty list
\* raises ValueError.
AnalyzeElevation ==
  /\ pc = "an_elevation"
  /\ IF NumberOfNodes(G) = 0
     THEN pc' = "raised" /\ err' = "ValueError" /\ err_at' = "elevation_range"
     ELSE pc' = "an_connectivity" /\ UNCHANGED <<err, err_at>>
  /\ UNCHANGED <<elevation, max_size, rows, cols, elevation_array, G, i, j, d,
                 edge_count, is_connected, components_listed, sample_size,
                 subgraph>>

\* Lines 92-97: connectivity, and the components when there are several.
\* networkx raises NetworkXPointlessConcept on a graph without nodes.
AnalyzeConnectivity ==
  /\ pc = "an_connectivity"
  /\ IF NumberOfNodes(G) = 0
     THEN /\ pc' = "raised" /\ err' = "NetworkXPointlessConcept"
          /\ err_at' = "is_connected"
          /\ UNCHANGED <<is_connected, components_listed>>
     ELSE /\ is_connected' = IsConnected(G)
          /\ components_listed' = ~IsConnected(G)
          /\ pc' = "analyzed"
          /\ UNCHANGED <<err, err_at>>
  /\ UNCHANGED <<elevation, max_size, rows, cols, elevation_array, G, i, j, d,
                 edge_count, sample_size, subgraph>>

\* ------------------------------------------------------ save_graph_sample
\* A slice that takes one node too many.
FirstNOffByOne(list, n) == SubSeq(list, 1, Min(n + 1, Len(list)))

\* list(G.nodes())[:sample_size] for sample_size >= 0
FirstN(list, n) == SubSeq(list, 1, Min(n, Len(list)))

\* G.subgraph(nodes): the nodes of G among `nodes`, the edges of G between them.
Subgraph(g, ns) ==
  LET S == {ns[k] : k \in 1..Len(ns)} \cap DOMAIN g.nodes
  IN [node_list |-> SelectSeq(g.node_list, LAMBDA n : n \in S),
      nodes |-> [n \in S |-> g.nodes[n]],
      edges |-> [e \in {x \in DOMAIN g.edges : x \subseteq S} |-> g.edges[e]]]

\* Lines 99-109; the file write of line 108 is outside the model.
SaveGraphSample ==
  /\ pc \in {"built", "analyzed"}
  /\ \E n \in 0..MaxSample :
       /\ sample_size' = n
       /\ subgraph' = Subgraph(G, FirstN(G.node_list, n))
  /\ pc' = "saved"
  /\ UNCHANGED <<elevation, max_size, rows, cols, elevation_array, G, i, j, d,
                 edge_count, err, err_at, is_connected, components_listed>>

Next ==
  \/ Start \/ AddNodeStep \/ BeginEdges \/ EdgeStep \/ Return
  \/ AnalyzeDegree \/ AnalyzeElevation \/ AnalyzeConnectivity
  \/ SaveGraphSample

Spec == Init /\ [][Next]_vars

SpecCap == InitCap /\ [][Next]_vars

\* ------------------------------------------------------------ properties
\* Shape of the caller's array.
InRows == elevation.shape[1]
InCols == elevation.shape[2]

\* create_elevation_graph has returned its graph to the caller.
Returned == pc \notin {"start", "nodes", "edges"}

\* The grid the build works on: the whole array, or the top-left
\* sub-rectangle a size cap leaves of it.
EffRows == IF max_size = None THEN InRows ELSE Min(InRows, max_size[1])
EffCols == IF max_size = None THEN InCols ELSE Min(InCols, max_size[2])

\* |row(u) - row(v)| + |col(u) - col(v)| of two nodes carrying cell attributes.
Manhattan(u, v) ==
  AbsInt(G.nodes[u].row - G.nodes[v].row) + AbsInt(G.nodes[u].col - G.nodes[v].col)

\* C1: without a size cap, a graph built from an R x C array, R, C >= 1, has
\* exactly the nodes 0 .. R*C-1; node row*C + col carries row, col and
\* elevation = array[row][col]; (row, col) <-> id is a bijection of the cells.
C1_NodesAreCells ==
  (Returned /\ max_size = None /\ InRows >= 1 /\ InCols >= 1) =>
    /\ DOMAIN G.nodes = 0..(InRows * InCols - 1)
    /\ NumberOfNodes(G) = InRows * InCols
    /\ \A p \in Cells(InRows, InCols) :
         LET n == p[1] * InCols + p[2]
         IN /\ G.nodes[n].row = p[1]
            /\ G.nodes[n].col = p[2]
            /\ G.nodes[n].elevation = elevation.data[p]
    /\ {<<G.nodes[n].row, G.nodes[n].col>> : n \in DOMAIN G.nodes} = Cells(InRows, InCols)

\* A 2 x 3 array has been built: six nodes, the last one is cell (1, 2).
C1_Witness ==
  /\ Returned /\ max_size = None
  /\ elevation.shape = <<2, 3>>
  /\ NumberOfNodes(G) = 6
  /\ G.nodes[5].row = 1 /\ G.nodes[5].col = 2
  /\ G.nodes[5].elevation = elevation.data[<<1, 2>>]

\* C2: without a size cap, a graph built from an R x C array, R, C >= 1, has
\* exactly R*(C-1) + C*(R-1) edges (0 for the 1 x 1 grid), whatever the
\* elevations are.
C2_EdgeCount ==
  (Returned /\ max_size = None /\ InRows >= 1 /\ InCols >= 1) =>
    NumberOfEdges(G) = InRows * (InCols - 1) + InCols * (InRows - 1)

\* A 2 x 3 array has been built with its seven edges.
C2_Witness ==
  /\ Returned /\ max_size = None
  /\ elevation.shape = <<2, 3>>
  /\ NumberOfEdges(G) = 7

\* C3: every edge {u, v} of a built graph has weight = |elevation(u) -
\* elevation(v)| >= 0 and distance = 1, for every element type and also next
\* to the no-data value -32768.
C3_WeightIsAbsDifference ==
  \A e \in DOMAIN G.edges : \A u \in e : \A v \in e \ {u} :
    /\ G.edges[e].weight = AbsInt(G.nodes[u].elevation - G.nodes[v].elevation)
    /\ G.edges[e].weight >= 0
    /\ G.edges[e].distance = 1

\* The nodes a build from the effective grid has: ids 0 .. rows*cols-1 counted
\* with the effective column count, attributes from the caller's array.
GridNodes ==
  [n \in 0..(EffRows * EffCols - 1) |->
     [row |-> n \div EffCols, col |-> n % EffCols,
      elevation |-> elevation.data[<<n \div EffCols, n % EffCols>>],
      pos |-> <<n % EffCols, -(n \div EffCols)>>]]

\* The pairs of ids of 4-adjacent cells of the effective grid.
GridEdges ==
  {{NodeId(p[1], p[2], EffCols), NodeId(q[1], q[2], EffCols)} :
     <<p, q>> \in {x \in Cells(EffRows, EffCols) \X Cells(EffRows, EffCols) :
                     AbsInt(x[1][1] - x[2][1]) + AbsInt(x[1][2] - x[2][2]) = 1}}

\* C4: with or without max_size the returned graph is the one function of
\* the top-left min(rows, max_rows) x min(cols, max_cols) sub-rectangle: ids
\* use the capped column count, and no discarded cell has any influence.
C4_CapIsTopLeftSubgrid ==
  Returned =>
    /\ G.nodes = GridNodes
    /\ G.node_list = [k \in 1..(EffRows * EffCols) |-> k - 1]
    /\ DOMAIN G.edges = GridEdges
    /\ \A e \in DOMAIN G.edges : \E u \in e : \E v \in e :
         /\ u < v
         /\ G.edges[e] = [weight |-> ElevationDiff(GridNodes[u].elevation,
                                                   GridNodes[v].elevation,
                                                   elevation.dtype),
                          distance |-> 1]

\* The cap (2, 2) has cut a 2 x 3 array down to 2 x 2: four nodes, four edges.
C4_Witness ==
  /\ Returned
  /\ max_size = <<2, 2>>
  /\ elevation.shape = <<2, 3>>
  /\ NumberOfNodes(G) = 4
  /\ NumberOfEdges(G) = 4
  /\ G.nodes[2].row = 1 /\ G.nodes[2].col = 0

\* C5: a build whose effective grid has zero rows or zero columns fails and
\* returns no graph to the caller.
C5_EmptyInputFails ==
  (EffRows = 0 \/ EffCols = 0) => ~Returned

C7_GridIsConnected ==
  /\ (Returned /\ EffRows >= 1 /\ EffCols >= 1) =>
       /\ 0 \in DOMAIN G.nodes
       /\ ReachFrom(G, {0}) = DOMAIN G.nodes
  /\ pc = "analyzed" => is_connected
  /\ ~components_listed

\* The connectivity check has run on the graph of a 2 x 3 grid.
C7_Witness ==
  /\ pc = "analyzed"
  /\ is_connected
  /\ elevation.shape = <<2, 3>>
  /\ NumberOfNodes(G) = 6

\* analyze_graph has been entered on the returned graph.
AnalysisInvoked == Returned /\ pc \notin {"built", "saved"}

C9_EdgeInsertedOnce ==
  /\ [](pc = "edges" => edge_count = NumberOfEdges(G))
  /\ [][pc = "edges" =>
          /\ \A e \in DOMAIN G.edges :
               e \in DOMAIN G'.edges /\ G'.edges[e] = G.edges[e]
          /\ edge_count' - edge_count = NumberOfEdges(G') - NumberOfEdges(G)
          /\ edge_count' - edge_count \in {0, 1}]_vars

\* The scan has just looked from a cell back at a neighbour visited before
\* it: the edge was there already and has been counted once.
C9_Witness ==
  /\ pc = "edges" /\ ~LoopDone /\ d > 1
  /\ LET ni == i + directions[d - 1][1]
         nj == j + directions[d - 1][2]
     IN /\ InBounds(ni, nj, rows, cols)
        /\ NodeId(ni, nj, cols) < NodeId(i, j, cols)
        /\ HasEdge(G, NodeId(i, j, cols), NodeId(ni, nj, cols))
  /\ edge_count = NumberOfEdges(G)
  /\ edge_count >= 2

\* C10: while edges are added and afterwards, every edge joins two distinct
\* nodes created for cells at Manhattan distance 1: no self-loop, no
\* diagonal, no edge from the end of one row to the start of the next.
C10_EdgesAreGridAdjacent ==
  /\ \A e \in DOMAIN G.edges :
       /\ Cardinality(e) = 2
       /\ e \subseteq DOMAIN G.nodes
       /\ \A u \in e : {"row", "col"} \subseteq DOMAIN G.nodes[u]
       /\ \A u \in e : \A v \in e \ {u} : Manhattan(u, v) = 1
  /\ (pc \notin {"start", "nodes"} /\ cols >= 2) =>
       \A r \in 0..(rows - 2) :
         {NodeId(r, cols - 1, cols), NodeId(r + 1, 0, cols)} \notin DOMAIN G.edges

\* A 2 x 2 grid is built: ids 1 and 2 differ by one across the row boundary
\* and are not joined, ids 0 and 1 are.
C10_Witness ==
  /\ Returned
  /\ rows = 2 /\ cols = 2
  /\ {0, 1} \in DOMAIN G.edges
  /\ {1, 3} \in DOMAIN G.edges
  /\ {1, 2} \notin DOMAIN G.edges
====
